---- MODULE Spec2Model ----
(***************************************************************************)
(* mbtifortune: the fortune endpoint (src/src/app/api/fortune/route.ts)    *)
(* and the client view (src/unnamed/part_000, the Home component).         *)
(*                                                                         *)
(* Strings are sequences of one-character strings.  The content the        *)
(* completion service returns is a sequence of JSON lexemes: "{" and "}"   *)
(* are the braces, "F" is the text of a member list holding all five       *)
(* FortuneResponse fields, "P" the text of a member list that lacks some   *)
(* of them, and "\n" is a newline.                                         *)
(***************************************************************************)
EXTENDS Integers, Sequences, FiniteSets, TLC

VARIABLES
    \* ---- fortune endpoint, one request ----
    apiKeySet,      \* process.env.OPENAI_API_KEY is set at request time
    request,        \* the body of the incoming request
    pc,             \* "start", "awaiting" (the external call), "done"
    calls,          \* calls of openai.chat.completions.create for this request
    prompt,         \* the MBTI and the situation line of the user message
    completion,     \* what the external call produced
    rawContent,     \* the normalized content
    response,       \* what POST returned (or the exception that left it)
    \* ---- client view ----
    mbti, concern, fortune, isLoading, error, lastUpdated,   \* useState slots
    energyTone,     \* the useMemo value of the latest render
    inflight,       \* the body of the fetch that has not settled yet
    outcome         \* how the latest handleSubmit that finished ended

serverVars == <<apiKeySet, request, pc, calls, prompt, completion, rawContent, response>>
clientVars == <<mbti, concern, fortune, isLoading, error, lastUpdated, energyTone,
                inflight, outcome>>
vars == <<serverVars, clientVars>>

----------------------------------------------------------------------------
\* Bounds of the model

MaxMbtiLen == 5
MaxContentLen == 3
MaxBlocks == 3
MaxLevelLen == 3
MaxMinute == 1

SeqsUpTo(S, n) == UNION {[1..k -> S] : k \in 0..n}

----------------------------------------------------------------------------
\* String helpers (String.prototype.trim, toUpperCase, includes, Array.join)

WhiteSpace == {" ", "\n"}

RECURSIVE TrimStart(_)
TrimStart(s) ==
    IF s # <<>> /\ Head(s) \in WhiteSpace THEN TrimStart(Tail(s)) ELSE s

RECURSIVE TrimEnd(_)
TrimEnd(s) ==
    IF s # <<>> /\ s[Len(s)] \in WhiteSpace
    THEN TrimEnd(SubSeq(s, 1, Len(s) - 1))
    ELSE s

Trim(s) == TrimEnd(TrimStart(s))

UpperChar(c) ==
    CASE c = "i" -> "I" [] c = "e" -> "E" [] c = "n" -> "N" [] c = "s" -> "S"
      [] c = "t" -> "T" [] c = "f" -> "F" [] c = "j" -> "J" [] c = "p" -> "P"
      [] OTHER -> c

ToUpperCase(s) == [i \in 1..Len(s) |-> UpperChar(s[i])]

RECURSIVE Join(_, _)
Join(segs, sep) ==
    IF segs = <<>> THEN <<>>
    ELSE IF Len(segs) = 1 THEN segs[1]
    ELSE segs[1] \o sep \o Join(Tail(segs), sep)

----------------------------------------------------------------------------
\* The fortune endpoint: POST of route.ts

\* Characters the request's mbti strings are drawn from
MbtiChars == {"I", "n", "T", "J", " "}
ConcernTexts == {<<>>, <<" ">>, <<" ", "c", " ">>}

\* A field of the parsed body: absent, JSON null, a string, or any other
\* JSON value (number, boolean, array, object)
NoField == [t |-> "absent", v |-> <<>>]
NullField == [t |-> "null", v |-> <<>>]
OtherField == [t |-> "other", v |-> <<>>]
StringField(s) == [t |-> "string", v |-> s]

MbtiFields ==
    {NoField, NullField, OtherField}
        \cup {StringField(s) : s \in SeqsUpTo(MbtiChars, MaxMbtiLen)}
ConcernFields ==
    {NoField, OtherField} \cup {StringField(s) : s \in ConcernTexts}

\* The request body: text that is not JSON, the JSON value null, another
\* JSON value that is not an object with fields (every property reads as
\* undefined), or an object
Requests ==
    {[kind |-> k, mbti |-> NoField, concern |-> NoField] :
        k \in {"unparseable", "null", "primitive"}}
        \cup {[kind |-> "object", mbti |-> m, concern |-> c] :
                m \in MbtiFields, c \in ConcernFields}

MsgNoKey == "OPENAI_API_KEY is not set"
MsgBadBody == "the request body cannot be read"
MsgInvalidMbti == "choose a valid MBTI type"
MsgGeneric == "a problem occurred while making the fortune"
Placeholder == <<"p", "l", "a", "c", "e", "h", "o", "l", "d", "e", "r">>

NoResponse == [kind |-> "none", status |-> 0, body |-> [shape |-> "none", error |-> ""]]
ErrorResponse(msg, status) ==
    [kind |-> "json", status |-> status, body |-> [shape |-> "error", error |-> msg]]
JsonResponse(parsed) ==
    [kind |-> "json", status |-> 200, body |-> [shape |-> parsed, error |-> ""]]
\* an exception that leaves POST: no response is built by the handler
Unhandled == [kind |-> "exception", status |-> 0, body |-> [shape |-> "none", error |-> ""]]

NoPrompt == [mbti |-> <<>>, concern |-> <<>>]

\* x?.trim() throws a TypeError when x is neither nullish nor a string
TrimThrows(field) == field.t = "other"
\* x?.trim() ?? '' otherwise
TrimOrEmpty(field) == IF field.t = "string" THEN Trim(field.v) ELSE <<>>

MbtiOf(payload) == ToUpperCase(TrimOrEmpty(payload.mbti))
ConcernOf(payload) == TrimOrEmpty(payload.concern)

mbtiPattern(s) ==
    /\ Len(s) = 4
    /\ s[1] \in {"I", "E"}
    /\ s[2] \in {"N", "S"}
    /\ s[3] \in {"T", "F"}
    /\ s[4] \in {"J", "P"}

Ended(resp) == [pc |-> "done", response |-> resp, calls |-> 0, prompt |-> NoPrompt]

\* Lines 71-111: normalize and validate the payload, then start the one call
Validate(payload) ==
    IF payload.kind = "null" \/ TrimThrows(payload.mbti) \/ TrimThrows(payload.concern)
    THEN Ended(Unhandled)
    ELSE IF MbtiOf(payload) = <<>> \/ ~mbtiPattern(MbtiOf(payload))
    THEN Ended(ErrorResponse(MsgInvalidMbti, 400))
    ELSE [pc |-> "awaiting", response |-> NoResponse, calls |-> 1,
          prompt |-> [mbti |-> MbtiOf(payload),
                      concern |-> IF ConcernOf(payload) = <<>>
                                  THEN Placeholder ELSE ConcernOf(payload)]]

\* Entry with the body parsed before the credential is looked at
EntryParseFirst(keySet, body) ==
    IF body.kind = "unparseable" THEN Ended(ErrorResponse(MsgBadBody, 400))
    ELSE IF ~keySet THEN Ended(ErrorResponse(MsgNoKey, 500))
    ELSE Validate(body)

\* Lines 53-111: POST up to the await of the external call
Entry(keySet, body) ==
    IF ~keySet THEN Ended(ErrorResponse(MsgNoKey, 500))
    ELSE IF body.kind = "unparseable" THEN Ended(ErrorResponse(MsgBadBody, 400))
    ELSE Validate(body)

\* ---- the completion and its normalization ----

Lexemes == {"{", "}", "F", "P", "\n"}

NoTextBlock == [hasText |-> FALSE, text |-> <<>>]
TextBlock(s) == [hasText |-> TRUE, text |-> s]
Blocks == {NoTextBlock} \cup {TextBlock(s) : s \in SeqsUpTo(Lexemes, 1)}

NoCompletion == [kind |-> "none", text |-> <<>>, blocks |-> <<>>]
\* choices is empty, or the message content is null
EmptyCompletions ==
    {[kind |-> k, text |-> <<>>, blocks |-> <<>>] : k \in {"nochoice", "nullcontent"}}
StringCompletions ==
    {[kind |-> "string", text |-> s, blocks |-> <<>>] : s \in SeqsUpTo(Lexemes, MaxContentLen)}
BlockCompletions ==
    {[kind |-> "blocks", text |-> <<>>, blocks |-> bs] : bs \in SeqsUpTo(Blocks, MaxBlocks)}
Completions == EmptyCompletions \cup StringCompletions \cup BlockCompletions

\* Lines 121-125: the text of a block, '' when it has no string text
BlockText(block) == IF block.hasText THEN block.text ELSE <<>>

\* NormalizeContent with the blocks that have no text left out of the join
NormalizeSkipping(c) ==
    IF c.kind = "string" THEN c.text
    ELSE IF c.kind = "blocks"
    THEN LET kept == SelectSeq(c.blocks, LAMBDA b : b.hasText) IN
         Join([i \in 1..Len(kept) |-> kept[i].text], <<"\n">>)
    ELSE <<>>

\* Lines 116-127
NormalizeContent(c) ==
    IF c.kind = "string" THEN c.text
    ELSE IF c.kind = "blocks"
    THEN Join([i \in 1..Len(c.blocks) |-> BlockText(c.blocks[i])], <<"\n">>)
    ELSE <<>>

\* JSON.parse on lexemes: whitespace between tokens is skipped; the value is
\* an object with all five fields, an object lacking some, the empty object,
\* or a SyntaxError
JSONParse(s) ==
    LET t == SelectSeq(s, LAMBDA c : c \notin WhiteSpace) IN
    IF t = <<"{", "F", "}">> THEN "fortune"
    ELSE IF t = <<"{", "P", "}">> THEN "partial"
    ELSE IF t = <<"{", "}">> THEN "empty"
    ELSE "SyntaxError"

Failed(n) == [pc |-> "done", calls |-> n, response |-> ErrorResponse(MsgGeneric, 500)]

\* Respond with one more attempt after a failed one
RespondRetrying(raw, n) ==
    IF (raw = <<>> \/ JSONParse(raw) = "SyntaxError") /\ n < 2
    THEN [pc |-> "awaiting", calls |-> n + 1, response |-> NoResponse]
    ELSE IF raw = <<>> \/ JSONParse(raw) = "SyntaxError" THEN Failed(n)
    ELSE [pc |-> "done", calls |-> n, response |-> JsonResponse(JSONParse(raw))]

\* Lines 129-141, given the normalized content
Respond(raw, n) ==
    IF raw = <<>> THEN Failed(n)
    ELSE IF JSONParse(raw) = "SyntaxError" THEN Failed(n)
    ELSE [pc |-> "done", calls |-> n, response |-> JsonResponse(JSONParse(raw))]

\* Lines 82-141 when the awaited call throws
Caught(n) == Failed(n)

----------------------------------------------------------------------------
\* The client view: Home of part_000

MBTI_TYPES ==
    {"INTJ", "INTP", "ENTJ", "ENTP", "INFJ", "INFP", "ENFJ", "ENFP",
     "ISTJ", "ISFJ", "ESTJ", "ESFJ", "ISTP", "ISFP", "ESTP", "ESFP"}
PRESET_CONCERNS == {"preset 1", "preset 2", "preset 3"}
\* what the user types into the textarea
TypedTexts == {"", "typed"}

MsgSelectMbti == "select an MBTI type"
MsgFetchProblem == "a problem occurred while fetching the fortune"
MsgUnknown == "an unknown error occurred"
NullError == "<null>"
NoErrorField == "<absent>"

\* Characters of energyLevel: "H" is the high marker, "L" the low marker
LevelChars == {"H", "L", "m", "u", " "}
\* the three labels the prompt asks for (high, medium, low)
ExpectedLevels == {<<"H", "u">>, <<"m", "t">>, <<"L", "u">>}

\* A response body: text that is not JSON, a falsy JSON value (null, 0,
\* false, ""), or a truthy value with or without an energyLevel string and
\* with or without an error field
Body(kind, hasLevel, level, err) ==
    [kind |-> kind, hasLevel |-> hasLevel, level |-> level, error |-> err]
NullPayload == Body("null", FALSE, <<>>, NoErrorField)
FortuneBody(level) == Body("object", TRUE, level, NoErrorField)
ErrorBody(err) == Body("object", FALSE, <<>>, err)

ResponseBodies ==
    {Body("unparseable", FALSE, <<>>, NoErrorField), Body("falsy", FALSE, <<>>, NoErrorField)}
        \cup {FortuneBody(l) : l \in ExpectedLevels}
        \cup {ErrorBody(e) : e \in {NoErrorField, "E", ""}}

\* what a rejected fetch throws: an Error with a message, or something else
Rejections == {[isError |-> TRUE, message |-> "Failed to fetch"],
               [isError |-> FALSE, message |-> ""]}

Times == {[minute |-> m, second |-> sec] : m \in 0..MaxMinute, sec \in {0, 30}}
\* toLocaleTimeString with hour and minute only
FormatTime(t) == <<t.minute>>

NoRequest == [sent |-> FALSE, mbti |-> "", concern |-> ""]
NoOutcome ==
    [kind |-> "none", ok |-> FALSE, body |-> NullPayload, message |-> "",
     now |-> [minute |-> 0, second |-> 0]]
LocalOutcome == [NoOutcome EXCEPT !.kind = "local"]

\* String.prototype.includes
Includes(s, needle) ==
    \E i \in 0..(Len(s) - Len(needle)) : SubSeq(s, i + 1, i + Len(needle)) = needle

\* energyTone with the low marker looked for first
EnergyToneLowFirst(f) ==
    IF f.kind = "null" THEN "<null>"
    ELSE IF ~f.hasLevel THEN "TypeError"
    ELSE LET normalized == Trim(f.level) IN
         IF Includes(normalized, <<"L">>) THEN "low"
         ELSE IF Includes(normalized, <<"H">>) THEN "high"
         ELSE "mid"

\* Lines 47-53; reading energyLevel.trim of a result without the field throws
EnergyTone(f) ==
    IF f.kind = "null" THEN "<null>"
    ELSE IF ~f.hasLevel THEN "TypeError"
    ELSE LET normalized == Trim(f.level) IN
         IF Includes(normalized, <<"H">>) THEN "high"
         ELSE IF Includes(normalized, <<"L">>) THEN "low"
         ELSE "mid"

\* useMemo(..., [fortune]) at the render that follows a state update
UseMemo(prev, cur, cached) == IF cur = prev THEN cached ELSE EnergyTone(cur)

Slots(f, lu, e, loading, req) ==
    [fortune |-> f, lastUpdated |-> lu, error |-> e, isLoading |-> loading,
     inflight |-> req]

\* handleSubmit that posts whatever is selected
BeginUnchecked(m, c, f, lu, e, loading, req) ==
    Slots(f, lu, NullError, TRUE, [sent |-> TRUE, mbti |-> m, concern |-> c])

\* Lines 64-81: handleSubmit up to the await of fetch
Begin(m, c, f, lu, e, loading, req) ==
    IF m = "" THEN Slots(f, lu, MsgSelectMbti, loading, req)
    ELSE Slots(f, lu, NullError, TRUE, [sent |-> TRUE, mbti |-> m, concern |-> c])

\* Line 83: response.json().catch(() => null)
ParseBody(body) == IF body.kind = "unparseable" THEN NullPayload ELSE body

\* Lines 90-91: payload?.error ?? fallback
MessageOf(payload) ==
    IF payload.kind = "object" /\ payload.error # NoErrorField
    THEN payload.error ELSE MsgFetchProblem

\* OnResponse that clears the result when the submission failed
OnResponseClearing(ok, body, now, f, lu, e) ==
    LET payload == ParseBody(body) IN
    IF ~ok \/ payload.kind # "object"
    THEN Slots(NullPayload, lu, MessageOf(payload), FALSE, NoRequest)
    ELSE Slots(payload, FormatTime(now), e, FALSE, NoRequest)

\* Lines 83-110 once fetch has resolved
OnResponse(ok, body, now, f, lu, e) ==
    LET payload == ParseBody(body) IN
    IF ~ok \/ payload.kind # "object"
    THEN Slots(f, lu, MessageOf(payload), FALSE, NoRequest)
    ELSE Slots(payload, FormatTime(now), e, FALSE, NoRequest)

\* OnReject without the finally block
OnRejectNoFinally(rej, f, lu, e) ==
    Slots(f, lu, IF rej.isError THEN rej.message ELSE MsgUnknown, TRUE, NoRequest)

\* Lines 102-110 once fetch has rejected
OnReject(rej, f, lu, e) ==
    Slots(f, lu, IF rej.isError THEN rej.message ELSE MsgUnknown, FALSE, NoRequest)

ClientIdle ==
    /\ mbti = ""
    /\ concern = ""
    /\ fortune = NullPayload
    /\ isLoading = FALSE
    /\ error = NullError
    /\ lastUpdated = <<>>
    /\ energyTone = "<null>"
    /\ inflight = NoRequest
    /\ outcome = NoOutcome

\* the slots after an update, and the render that follows
Commit(r) ==
    /\ fortune' = r.fortune
    /\ lastUpdated' = r.lastUpdated
    /\ error' = r.error
    /\ isLoading' = r.isLoading
    /\ inflight' = r.inflight
    /\ energyTone' = UseMemo(fortune, r.fortune, energyTone)

\* Line 151: the select's onChange
SetMbti ==
    /\ \E v \in MBTI_TYPES \cup {""} : mbti' = v
    /\ UNCHANGED <<concern, fortune, isLoading, error, lastUpdated, energyTone,
                   inflight, outcome>>
    /\ UNCHANGED serverVars

\* Line 171: the textarea's onChange
TypeConcern ==
    /\ \E v \in TypedTexts : concern' = v
    /\ UNCHANGED <<mbti, fortune, isLoading, error, lastUpdated, energyTone,
                   inflight, outcome>>
    /\ UNCHANGED serverVars

\* Lines 178-185: a preset button, disabled while loading
ClickPreset ==
    /\ ~isLoading
    /\ \E preset \in PRESET_CONCERNS : concern' = preset
    /\ UNCHANGED <<mbti, fortune, isLoading, error, lastUpdated, energyTone,
                   inflight, outcome>>
    /\ UNCHANGED serverVars

\* Lines 64-81 and 191-197: the submit button, disabled while loading
Submit ==
    /\ ~isLoading
    /\ Commit(Begin(mbti, concern, fortune, lastUpdated, error, isLoading, inflight))
    /\ outcome' = IF Begin(mbti, concern, fortune, lastUpdated, error, isLoading,
                           inflight).inflight.sent
                  THEN NoOutcome ELSE LocalOutcome
    /\ UNCHANGED <<mbti, concern>>
    /\ UNCHANGED serverVars

\* Lines 75-110: fetch resolves with a response
ResponseArrives ==
    /\ inflight.sent
    /\ \E ok \in BOOLEAN, body \in ResponseBodies, now \in Times :
        /\ Commit(OnResponse(ok, body, now, fortune, lastUpdated, error))
        /\ outcome' = [kind |-> "response", ok |-> ok, body |-> body,
                       message |-> "", now |-> now]
    /\ UNCHANGED <<mbti, concern>>
    /\ UNCHANGED serverVars

\* Lines 75-110: fetch rejects
FetchRejects ==
    /\ inflight.sent
    /\ \E rej \in Rejections :
        /\ Commit(OnReject(rej, fortune, lastUpdated, error))
        /\ outcome' = [NoOutcome EXCEPT !.kind = "rejected",
                                        !.message = IF rej.isError THEN rej.message
                                                    ELSE "<not an Error>"]
    /\ UNCHANGED <<mbti, concern>>
    /\ UNCHANGED serverVars

\* the endpoint's variables while only the client runs
ServerIdle ==
    /\ apiKeySet = TRUE
    /\ request = [kind |-> "primitive", mbti |-> NoField, concern |-> NoField]
    /\ pc = "start"
    /\ calls = 0
    /\ prompt = NoPrompt
    /\ completion = NoCompletion
    /\ rawContent = <<>>
    /\ response = NoResponse

ClientInit == ClientIdle /\ ServerIdle

ClientNext ==
    SetMbti \/ TypeConcern \/ ClickPreset \/ Submit \/ ResponseArrives \/ FetchRejects

ClientSpec == ClientInit /\ [][ClientNext]_vars

\* ---- the energy tone of every result ----

ToneFortunes ==
    {FortuneBody(l) : l \in SeqsUpTo(LevelChars, MaxLevelLen)}
        \cup {NullPayload, ErrorBody("E")}

\* Line 95 followed by the render: setFortune with any result
SetFortune ==
    /\ \E f \in ToneFortunes :
        /\ fortune' = f
        /\ energyTone' = UseMemo(fortune, f, energyTone)
    /\ UNCHANGED <<mbti, concern, isLoading, error, lastUpdated, inflight, outcome>>
    /\ UNCHANGED serverVars

ToneNext == SetFortune

ToneSpec == ClientInit /\ [][ToneNext]_vars

----------------------------------------------------------------------------
\* The endpoint as a state machine: one request per behaviour (the handler
\* keeps no state across requests)

ServerInit ==
    /\ apiKeySet \in BOOLEAN
    /\ request \in Requests
    /\ pc = "start"
    /\ calls = 0
    /\ prompt = NoPrompt
    /\ completion = NoCompletion
    /\ rawContent = <<>>
    /\ response = NoResponse

POST ==
    /\ pc = "start"
    /\ LET r == Entry(apiKeySet, request) IN
        /\ pc' = r.pc
        /\ response' = r.response
        /\ calls' = r.calls
        /\ prompt' = r.prompt
    /\ UNCHANGED <<apiKeySet, request, completion, rawContent>>
    /\ UNCHANGED clientVars

CompletionReturns ==
    /\ pc = "awaiting"
    /\ \E c \in Completions :
        /\ completion' = c
        /\ rawContent' = NormalizeContent(c)
        /\ LET r == Respond(NormalizeContent(c), calls) IN
            /\ pc' = r.pc
            /\ calls' = r.calls
            /\ response' = r.response
    /\ UNCHANGED <<apiKeySet, request, prompt>>
    /\ UNCHANGED clientVars

CompletionThrows ==
    /\ pc = "awaiting"
    /\ completion' = [kind |-> "throws", text |-> <<>>, blocks |-> <<>>]
    /\ LET r == Caught(calls) IN
        /\ pc' = r.pc
        /\ calls' = r.calls
        /\ response' = r.response
    /\ UNCHANGED <<apiKeySet, request, prompt, rawContent>>
    /\ UNCHANGED clientVars

Next == POST \/ CompletionReturns \/ CompletionThrows

Init == ServerInit /\ ClientIdle

Spec == Init /\ [][Next]_vars

----------------------------------------------------------------------------
\* Claims about the endpoint

\* C1: every response of POST is a success holding all five FortuneResponse
\* fields or a non-success holding {error}; output of any other shape is
\* never returned with a success status.
C1_FullFortuneOrError ==
    (pc = "done" /\ response.kind = "json") =>
        \/ response.status = 200 /\ response.body.shape = "fortune"
        \/ response.status # 200 /\ response.body.shape = "error"

\* C2: for every request and every outcome of the external call the handler
\* ends by returning a structured response, a success or {error} with status
\* 400 or 500; no failure leaves it as an unhandled exception.
C2_AlwaysStructuredResponse ==
    pc = "done" =>
        /\ response.kind = "json"
        /\ response.status \in {200, 400, 500}
        /\ response.status \in {400, 500} => response.body.shape = "error"

\* the mbti of the body is absent, empty, or does not match the pattern
\* after trimming and upper-casing
MbtiAbsentOrInvalid(body) ==
    \/ body.kind \in {"null", "primitive"}
    \/ body.kind = "object" /\ body.mbti.t \in {"absent", "null"}
    \/ body.kind = "object" /\ body.mbti.t = "string"
        /\ ~mbtiPattern(ToUpperCase(Trim(body.mbti.v)))

\* C3: with the credential set and a parseable body, a request whose mbti is
\* absent, empty or does not match the pattern gets status 400 with the
\* invalid-type message, and the external service is not invoked.
C3_InvalidMbtiRejected ==
    (pc = "done" /\ apiKeySet /\ request.kind # "unparseable"
        /\ MbtiAbsentOrInvalid(request)) =>
            /\ response = ErrorResponse(MsgInvalidMbti, 400)
            /\ calls = 0

\* C4: without the credential every request (valid, invalid mbti or
\* unparseable) gets status 500 with the credential message, never a 400,
\* and the external call is never attempted.
C4_NoKeyServerError ==
    ~apiKeySet =>
        /\ pc # "awaiting"
        /\ calls = 0
        /\ completion = NoCompletion
        /\ pc = "done" => response = ErrorResponse(MsgNoKey, 500)

C4_Witness ==
    /\ ~apiKeySet
    /\ pc = "done"
    /\ request.kind = "unparseable"
    /\ response.status = 500

\* the request passes the configuration, parse and validation steps
PassesChecks ==
    /\ apiKeySet
    /\ request.kind \in {"object", "primitive"}
    /\ request.mbti.t = "string"
    /\ request.concern.t # "other"
    /\ mbtiPattern(ToUpperCase(Trim(request.mbti.v)))

CompletionFailed ==
    \/ completion.kind = "throws"
    \/ rawContent = <<>>
    \/ JSONParse(rawContent) = "SyntaxError"

\* C7: a request that passes the checks makes exactly one external call, no
\* request makes more than one, and after a failed attempt the handler
\* answers with the error response without another attempt.
C7_ExactlyOneCall ==
    /\ calls <= 1
    /\ (pc \in {"awaiting", "done"} /\ PassesChecks) => calls = 1
    /\ (pc = "done" /\ ~PassesChecks) => calls = 0
    /\ (pc = "done" /\ PassesChecks /\ CompletionFailed)
            => response = ErrorResponse(MsgGeneric, 500)

C7_Witness ==
    /\ pc = "done"
    /\ PassesChecks
    /\ completion.kind = "string"
    /\ JSONParse(rawContent) = "SyntaxError"
    /\ calls = 1
    /\ response.status = 500

\* the texts of the blocks that have a string text, in order
TextsOfTextBlocks(bs) ==
    LET kept == SelectSeq(bs, LAMBDA b : b.hasText) IN
    [i \in 1..Len(kept) |-> kept[i].text]

\* C10 as stated: blocks without text are skipped and contribute nothing to
\* the normalized string.
C10_TextlessBlocksSkipped ==
    (pc = "done" /\ completion.kind = "blocks") =>
        rawContent = Join(TextsOfTextBlocks(completion.blocks), <<"\n">>)

\* the segment block i contributes, and where it starts in the joined string
Segment(bs, i) == IF bs[i].hasText THEN bs[i].text ELSE <<>>
RECURSIVE SegmentStart(_, _)
SegmentStart(bs, i) ==
    IF i = 1 THEN 0 ELSE SegmentStart(bs, i - 1) + Len(Segment(bs, i - 1)) + 1

\* C10 amended: string content is used as is; a sequence of n blocks gives
\* one segment per block, in order, separated by n-1 newlines, the segment
\* of a block without string text being empty; content that is neither
\* gives the empty string; empty normalized content, and every sequence in
\* which no block has text, ends in the generic server error.
C10_NormalizedContent ==
    pc = "done" =>
        /\ completion.kind = "string" => rawContent = completion.text
        /\ completion.kind \in {"nochoice", "nullcontent"} => rawContent = <<>>
        /\ completion.kind = "blocks" =>
            LET bs == completion.blocks
                n == Len(bs) IN
            /\ n = 0 => rawContent = <<>>
            /\ n > 0 =>
                /\ Len(rawContent) = SegmentStart(bs, n) + Len(Segment(bs, n))
                /\ \A i \in 1..n :
                    SubSeq(rawContent, SegmentStart(bs, i) + 1,
                           SegmentStart(bs, i) + Len(Segment(bs, i))) = Segment(bs, i)
                /\ \A i \in 2..n : rawContent[SegmentStart(bs, i)] = "\n"
            /\ (\A i \in 1..n : ~bs[i].hasText)
                    => response = ErrorResponse(MsgGeneric, 500)
        /\ (completion.kind # "none" /\ rawContent = <<>>)
                => response = ErrorResponse(MsgGeneric, 500)

C10_Witness ==
    /\ pc = "done"
    /\ completion.kind = "blocks"
    /\ Len(completion.blocks) = 3
    /\ completion.blocks[1].text = <<"{">>
    /\ ~completion.blocks[2].hasText
    /\ rawContent = <<"{", "\n", "\n", "}">>
    /\ response.status = 200

----------------------------------------------------------------------------
\* Claims about the client view

SettleStep == isLoading /\ ~isLoading'
\* ... with a success status and a body that parses to a truthy value
SuccessStep ==
    /\ SettleStep
    /\ outcome'.kind = "response"
    /\ outcome'.ok
    /\ outcome'.body.kind = "object"
\* the step is a submission that failed the local validation
LocalFailureStep == outcome'.kind = "local" /\ outcome.kind # "local"

C6_LoadingClearedOnSettle ==
    /\ isLoading <=> inflight.sent
    /\ outcome.kind \in {"rejected", "response", "local"} => ~isLoading

C6_Witness ==
    /\ outcome.kind = "rejected"
    /\ error = "Failed to fetch"
    /\ ~isLoading
    /\ ~inflight.sent

\* C8: a submit with no type selected issues no network call, sets the error
\* slot to the local validation message and leaves the in-flight flag and
\* the stored result unchanged; a network call is issued only by a
\* submission made with a type selected.
C8_NoTypeNoNetworkCall ==
    [][ /\ LocalFailureStep =>
            /\ mbti = ""
            /\ error' = MsgSelectMbti
            /\ inflight' = inflight
            /\ isLoading' = isLoading
            /\ fortune' = fortune
        /\ (inflight'.sent /\ inflight' # inflight) =>
            /\ mbti # ""
            /\ inflight'.mbti = mbti
            /\ inflight'.concern = concern
      ]_vars

C8_Witness ==
    /\ outcome.kind = "local"
    /\ mbti = ""
    /\ error = MsgSelectMbti
    /\ ~inflight.sent
    /\ ~isLoading
    /\ fortune.kind = "object"

HasMarker(level, marker) == \E i \in 1..Len(level) : level[i] = marker

\* C9: with no result there is no tone; otherwise the tone is high when
\* energyLevel contains the high marker, low when it contains the low marker
\* and not the high one, mid when it contains neither.
C9_EnergyToneClassification ==
    /\ fortune.kind = "null" => energyTone = "<null>"
    /\ (fortune.kind = "object" /\ fortune.hasLevel) =>
        /\ HasMarker(fortune.level, "H") => energyTone = "high"
        /\ (HasMarker(fortune.level, "L") /\ ~HasMarker(fortune.level, "H"))
                => energyTone = "low"
        /\ (~HasMarker(fortune.level, "L") /\ ~HasMarker(fortune.level, "H"))
                => energyTone = "mid"

C9_Witness ==
    /\ fortune = FortuneBody(<<"L", "H">>)
    /\ energyTone = "high"

====
